---- MODULE Spec2Model ----
(***************************************************************************)
(* Model of the honOS kernel's process execution path (kernel/terminal.cpp) *)
(* and of the task manager it drives (kernel/task.hpp).                     *)
(*                                                                          *)
(* Spec     : terminal tasks running Terminal::ExecuteFile / LoadApp over a *)
(*            physical frame arena, four-level page-table roots and the     *)
(*            app_loads cache.  Timer interrupts may switch tasks between   *)
(*            any two statements executed with interrupts enabled, so the   *)
(*            steps of different tasks interleave.                          *)
(* TaskSpec : the TaskManager run queue and the per-task mailboxes.         *)
(***************************************************************************)
EXTENDS Integers, Sequences, FiniteSets, TLC

(* ------------------------------ bounds --------------------------------- *)
\* physical frames of the arena: 1 .. MaxFrames
MaxFrames == 31
\* number of ExecuteFile calls made over a run
MaxExecs == 2
\* number of demand-paged frames a running application may fault in
MaxDemand == 1
\* tasks the task manager may create, and messages a mailbox may hold
MaxTasks == 4
MaxMsgs == 2
\* messages the interrupt handlers deliver to terminal tasks in a run
MaxSends == 2
\* key messages delivered to terminal tasks while the blink timer runs
MaxKeys == 2
\* characters of the command lines enumerated in full
MaxLineChars == 2
\* file maps an application makes
MaxFileMaps == 1
\* characters of the argument strings enumerated in full
MaxArgChars == 4
\* the longest of the short string buffers
MaxArgbuf == 8

(* ------------------------- program constants --------------------------- *)
\* const int stack_size = 8 * 4096
StackFrames == 8
\* int argv_len = 32
ArgvLen == 32
\* int argbuf_len = 4096 - sizeof(char**) * argv_len
ArgbufLen == 3840
\* the three terminal-backed descriptors
NumStdFiles == 3
\* bytes per frame
PageSize == 4096
\* CopyPageMaps(dst, src, 4, 256)
AliasFirst == 4
AliasEnd == 256
\* rows of a terminal (terminal.hpp)
kRows == 15

(* ------------------------------ addresses ------------------------------ *)
\* A 64-bit linear address, split as LinearAddress4Level splits it: the 16
\* sign-extension bits, the PML4 index, the 27 bits of the three lower table
\* indices (the page number inside the PML4 slot) and the 12 offset bits.
PagesPerSlot == 512 * 512 * 512

Addr(h, s, p, o) == [hi |-> h, pml4 |-> s, page |-> p, off |-> o]

AddrLess(a, b) ==
  \/ a.hi < b.hi
  \/ a.hi = b.hi /\ a.pml4 < b.pml4
  \/ a.hi = b.hi /\ a.pml4 = b.pml4 /\ a.page < b.page
  \/ a.hi = b.hi /\ a.pml4 = b.pml4 /\ a.page = b.page /\ a.off < b.off

AddrMax(a, b) == IF AddrLess(a, b) THEN b ELSE a

\* a + n modulo 2^64, for a byte count n below 2^31
AddrAdd(a, n) ==
  LET o == a.off + n
      p == a.page + (o \div PageSize)
      s == a.pml4 + (p \div PagesPerSlot)
      h == a.hi + (s \div 512)
  IN Addr(h % 65536, s % 512, p % PagesPerSlot, o % PageSize)

ZeroAddr == Addr(0, 0, 0, 0)
\* 0xffff'8000'0000'0000
CanonicalBase == Addr(65535, 256, 0, 0)
\* 0xffff'ffff'ffff'f000
ArgsFrameAddr == Addr(65535, 511, PagesPerSlot - 1, 0)
\* 0xffff'ffff'ffff'f000 - stack_size
StackFrameAddr == Addr(65535, 511, PagesPerSlot - 1 - StackFrames, 0)

\* (v + 4095) & 0xffff'ffff'ffff'f000
PageAlignUp(a) == [AddrAdd(a, PageSize - 1) EXCEPT !.off = 0]

(* -------------------------------- files -------------------------------- *)
\* The executables of the boot volume.  An image is its ELF identification,
\* its e_type, its e_entry and its program headers (p_type, p_vaddr,
\* p_memsz).
Files == 1 .. 6

Phdr(t, v, m) == [p_type |-> t, p_vaddr |-> v, p_memsz |-> m]

FileImage(f) ==
  CASE f = 1 -> [magic |-> TRUE, e_type |-> "ET_EXEC",
                 e_entry |-> Addr(65535, 256, 0, 16),
                 phdr |-> << Phdr("PT_LOAD", Addr(65535, 256, 0, 0), 4096) >>]
    [] f = 2 -> [magic |-> TRUE, e_type |-> "ET_EXEC",
                 e_entry |-> Addr(65535, 256, 0, 32),
                 phdr |-> << Phdr("PT_NOTE", ZeroAddr, 0),
                             Phdr("PT_LOAD", Addr(65535, 256, 0, 0), 100),
                             Phdr("PT_LOAD", Addr(0, 4, 1, 0), 4097) >>]
    [] f = 3 -> [magic |-> FALSE, e_type |-> "ET_EXEC",
                 e_entry |-> ZeroAddr,
                 phdr |-> << Phdr("PT_LOAD", Addr(65535, 256, 0, 0), 4096) >>]
    [] f = 4 -> [magic |-> TRUE, e_type |-> "ET_DYN",
                 e_entry |-> Addr(65535, 256, 0, 0),
                 phdr |-> << Phdr("PT_LOAD", Addr(65535, 256, 0, 0), 4096) >>]
    [] f = 5 -> [magic |-> TRUE, e_type |-> "ET_EXEC",
                 e_entry |-> Addr(0, 4, 0, 0),
                 phdr |-> << Phdr("PT_LOAD", Addr(0, 4, 0, 0), 4096),
                             Phdr("PT_LOAD", Addr(65535, 256, 0, 0), 4096) >>]
    [] f = 6 -> [magic |-> TRUE, e_type |-> "ET_EXEC",
                 e_entry |-> Addr(65535, 256, 0, 0),
                 phdr |-> << Phdr("PT_NOTE", Addr(65535, 256, 0, 0), 4096) >>]

(* --------------------------- physical frames --------------------------- *)
\* Frames 1 and 2 hold the kernel's own PML4 and the lower-level table its
\* slot 0 points to; they are allocated at boot and never freed.
KernelPML4 == 1
KernelPDP == 2
Frames == 1 .. MaxFrames
\* The PML4 slots the model tracks: the kernel's identity slot, the two ends
\* of the range CopyPageMaps aliases, the slot of 0xffff'8000'0000'0000 and
\* the slot of the argument and stack frames.  Every other slot stays 0.
Slots == {0, 4, 255, 256, 511}
EmptyTable == [s \in Slots |-> 0]
NoMap == [p \in {} |-> 0]

VARIABLES
  allocated,   \* frames the memory manager has handed out
  pml4tab,     \* top-level tables: root frame -> [slot -> lower table or 0]
  lower,       \* lower-level tables: table frame -> [page -> leaf frame]
  app_loads,   \* the load cache: entries (file_entry, AppLoadInfo)
  cr3,         \* the CR3 register as each task sees it while it runs
  ctx_cr3,     \* Task::Context().cr3
  pc,          \* where each terminal task stands in ExecuteFile
  file,        \* file_entry of the call in progress
  temp_pml4,   \* LoadApp's temp_pml4
  app_load,    \* LoadApp's app_load / ExecuteFile's app_load
  err,         \* the Error the call returns
  argc,        \* MakeArgVector's result
  files,       \* task.Files().size()
  dpaging,     \* the demand-paging window <<begin, end>>
  filemap_end, \* task.FileMapEnd()
  ndemand,     \* frames the running application has faulted in
  nexecs,      \* ExecuteFile calls made so far
  hist,        \* per task: what the call in progress started from and did
  snap,        \* per cached file: the canonical mapping as it was inserted
  filemaps,    \* task.FileMaps().size()
  latest_id,   \* TaskManager::latest_id_
  running,     \* TaskManager::running_, the ids of its tasks front first
  msgs,        \* Task::msgs_ of each task
  task_err,    \* the Error the last call by id returned
  send_woke,   \* the task the last step's SendMessage took out of sleep, or 0
  load_end,    \* a load end handed to the window computation of ExecuteFile
  dp_window,   \* the window it sets, << >> before the computation
  mv_command,    \* MakeArgVector's command
  mv_first_arg,  \* its first_arg
  mv_argv_len,   \* its argv_len
  mv_argbuf_len, \* its argbuf_len
  mv_result,     \* what it returned and wrote, << >> before the call
  tpc,         \* the line of terminal.cpp each terminal task is to execute
  intr,        \* the interrupt flag of each terminal task's context
  tmsg,        \* the message each terminal task is handling
  sent,        \* per task: the messages SendMessage delivered to it
  rcvd,        \* per task: the messages its ReceiveMessage calls returned
  bl_pc,       \* blink chain: the line each terminal task is to execute
  bl_timers,   \* blink timers the timer manager holds for each task
  bl_box,      \* the mailbox of each task
  bl_msg,      \* the message each task has received and not yet handled
  bl_keys,     \* key messages delivered so far
  ik_show,     \* Terminal::show_window_
  ik_rest,     \* the keys still to be given to InputKey
  ik_linebuf,  \* linebuf_ up to linebuf_index_
  ik_x,        \* cursor_.x
  ik_y,        \* cursor_.y
  ik_touched,  \* the lines at which window_ has been dereferenced
  ik_state     \* "run", or "fault" once an access has trapped

memVars == << allocated, pml4tab, lower >>
execVars == << app_loads, cr3, ctx_cr3, pc, file, temp_pml4, app_load,
               err, argc, files, dpaging, filemap_end, ndemand,
               nexecs, hist, snap, filemaps >>
taskVars == << latest_id, running, msgs, task_err, send_woke >>
alignVars == << load_end, dp_window >>
\* the variables of the computations checked by themselves
argVars == << mv_command, mv_first_arg, mv_argv_len, mv_argbuf_len, mv_result >>
termVars == << tpc, intr, tmsg, sent, rcvd >>
blinkVars == << bl_pc, bl_timers, bl_box, bl_msg, bl_keys >>
inkeyVars == << ik_show, ik_rest, ik_linebuf, ik_x, ik_y, ik_touched, ik_state >>
restVars == << alignVars, argVars, termVars, blinkVars, inkeyVars >>
vars == << memVars, execVars, taskVars, restVars >>

\* The memory state the paging functions read and return.  The memory
\* manager may hand out any free frame; top tells from which end of the
\* arena the model takes it, so that the frames two terminals are given do
\* not depend on the order of their steps.
MemOf(t) == [alloc |-> allocated, tab |-> pml4tab, low |-> lower,
             top |-> t = 3]

FreeFrames(m) == Frames \ m.alloc
FirstFree(m) ==
  IF m.top
  THEN CHOOSE f \in FreeFrames(m) : \A g \in FreeFrames(m) : f >= g
  ELSE CHOOSE f \in FreeFrames(m) : \A g \in FreeFrames(m) : f <= g

\* NewPageMap: one fresh zeroed frame, or an error when none is left
NewPageMap(m) ==
  IF FreeFrames(m) = {}
  THEN [m |-> m, value |-> 0, error |-> "OutOfMemory"]
  ELSE LET f == FirstFree(m)
       IN [m |-> [m EXCEPT !.alloc = @ \cup {f},
                           !.tab = (f :> EmptyTable) @@ @],
           value |-> f, error |-> "Success"]

\* FreePageMap: returns the one frame of the table to the memory manager
FreePageMap(m, table) ==
  [m EXCEPT !.alloc = @ \ {table},
            !.tab = [r \in DOMAIN m.tab \ {table} |-> m.tab[r]]]

\* CopyPageMaps(dst, src, first, end): the top-level entries of slots
\* [first, end) of src are copied into dst; the lower-level tables they
\* point to become shared.
CopyPageMaps(m, dst, src, first, end) ==
  [m EXCEPT !.tab[dst] =
     [s \in Slots |-> IF first <= s /\ s < end THEN m.tab[src][s]
                      ELSE m.tab[dst][s]]]

\* Maps n pages from page number p on in table tbl, a fresh frame for each
\* page not yet present; stops at the first allocation failure.
RECURSIVE MapPages(_, _, _, _)
MapPages(m, tbl, p, n) ==
  IF n = 0 THEN [m |-> m, error |-> "Success"]
  ELSE IF p \in DOMAIN m.low[tbl] THEN MapPages(m, tbl, p + 1, n - 1)
  ELSE IF FreeFrames(m) = {} THEN [m |-> m, error |-> "OutOfMemory"]
  ELSE LET f == FirstFree(m)
           m1 == [m EXCEPT !.alloc = @ \cup {f},
                           !.low[tbl] = (p :> f) @@ @]
       IN MapPages(m1, tbl, p + 1, n - 1)

\* SetupPageMaps(addr, num_4kpages) on the root in CR3: the lower-level
\* table of addr's slot is created when absent, then the pages are mapped.
SetupPageMaps(m, root, addr, n) ==
  IF m.tab[root][addr.pml4] # 0
  THEN MapPages(m, m.tab[root][addr.pml4], addr.page, n)
  ELSE IF FreeFrames(m) = {} THEN [m |-> m, error |-> "OutOfMemory"]
  ELSE LET t == FirstFree(m)
           m1 == [m EXCEPT !.alloc = @ \cup {t},
                           !.tab[root][addr.pml4] = t,
                           !.low = (t :> NoMap) @@ @]
       IN MapPages(m1, t, addr.page, n)

\* the slots CleanPageMaps(addr) walks in the root in CR3
CleanSlots(m, root, addr) ==
  {s \in Slots : s >= addr.pml4 /\ m.tab[root][s] # 0}
LeavesOf(m, tbl) == {m.low[tbl][p] : p \in DOMAIN m.low[tbl]}

\* CleanPageMaps(addr): every leaf frame and lower-level table reached from
\* the slots at and above addr's slot of the root in CR3 is unmapped and
\* freed, and the slots are cleared.
CleanPageMaps(m, root, addr) ==
  LET ss == CleanSlots(m, root, addr)
      tbls == {m.tab[root][s] : s \in ss}
      gone == tbls \cup UNION {LeavesOf(m, t) : t \in tbls \cap DOMAIN m.low}
  IN [m EXCEPT !.alloc = @ \ gone,
               !.tab[root] =
                 [s \in Slots |-> IF s \in ss THEN 0 ELSE m.tab[root][s]],
               !.low = [t \in DOMAIN m.low \ tbls |-> m.low[t]]]

(* ---------------------------- MakeArgVector ---------------------------- *)
\* C strings are sequences of characters; NoArg is the null first_arg.
NoArg == << "null" >>
IsSpace(c) == c = " "

\* a push_to_argv that looks at the string buffer only
PushToArgv_AnyArgc(st, s, argv_len, argbuf_len) ==
  IF st.argbuf_index >= argbuf_len
  THEN [st EXCEPT !.error = "Full"]
  ELSE [argc |-> st.argc + 1,
        argv |-> Append(st.argv, s),
        argbuf_index |-> st.argbuf_index + Len(s) + 1,
        error |-> "Success"]

\* push_to_argv
PushToArgv(st, s, argv_len, argbuf_len) ==
  IF st.argc >= argv_len \/ st.argbuf_index >= argbuf_len
  THEN [st EXCEPT !.error = "Full"]
  ELSE [argc |-> st.argc + 1,
        argv |-> Append(st.argv, s),
        argbuf_index |-> st.argbuf_index + Len(s) + 1,
        error |-> "Success"]

\* a scan that stays where it is
Scan_Stay(a, p, sp) == p

\* the position of the first character at or after p that is (sp = TRUE) or
\* is not (sp = FALSE) a space; Len(a) + 1 is the terminating NUL
RECURSIVE Scan(_, _, _)
Scan(a, p, sp) ==
  IF p > Len(a) THEN p
  ELSE IF IsSpace(a[p]) = sp THEN p
  ELSE Scan(a, p + 1, sp)

\* the while (true) loop over first_arg, from position p
RECURSIVE ArgLoop(_, _, _, _, _)
ArgLoop(st, a, p, argv_len, argbuf_len) ==
  LET q == Scan(a, p, FALSE)
      r == Scan(a, q, TRUE)
      is_end == r > Len(a)
      st1 == PushToArgv(st, SubSeq(a, q, r - 1), argv_len, argbuf_len)
  IN IF q > Len(a) THEN st
     ELSE IF st1.error # "Success" THEN st1
     ELSE IF is_end THEN st1
     ELSE ArgLoop(st1, a, r + 1, argv_len, argbuf_len)

MakeArgVector(command, first_arg, argv_len, argbuf_len) ==
  LET st0 == [argc |-> 0, argv |-> << >>, argbuf_index |-> 0,
              error |-> "Success"]
      st1 == PushToArgv(st0, command, argv_len, argbuf_len)
  IN IF st1.error # "Success" THEN st1
     ELSE IF first_arg = NoArg THEN st1
     ELSE ArgLoop(st1, first_arg, 1, argv_len, argbuf_len)

(* ------------------------------- the loader ---------------------------- *)
\* GetFirstLoadAddress
RECURSIVE FirstLoadFrom(_, _)
FirstLoadFrom(phdr, i) ==
  IF i > Len(phdr) THEN ZeroAddr
  ELSE IF phdr[i].p_type # "PT_LOAD" THEN FirstLoadFrom(phdr, i + 1)
  ELSE phdr[i].p_vaddr
GetFirstLoadAddress(img) == FirstLoadFrom(img.phdr, 1)

\* CopyLoadSegments, from program header i on, with last_addr so far
RECURSIVE CopyLoadFrom(_, _, _, _, _)
CopyLoadFrom(m, root, phdr, i, last_addr) ==
  IF i > Len(phdr) THEN [m |-> m, value |-> last_addr, error |-> "Success"]
  ELSE IF phdr[i].p_type # "PT_LOAD"
       THEN CopyLoadFrom(m, root, phdr, i + 1, last_addr)
  ELSE LET last == AddrMax(last_addr,
                           AddrAdd(phdr[i].p_vaddr, phdr[i].p_memsz))
           num_4kpages == (phdr[i].p_memsz + 4095) \div 4096
           r == SetupPageMaps(m, root, phdr[i].p_vaddr, num_4kpages)
       IN IF r.error # "Success"
          THEN [m |-> r.m, value |-> last, error |-> r.error]
          ELSE CopyLoadFrom(r.m, root, phdr, i + 1, last)
CopyLoadSegments(m, root, img) == CopyLoadFrom(m, root, img.phdr, 1, ZeroAddr)

\* LoadELF without the e_type test
LoadELF_AnyType(m, root, img) ==
  IF AddrLess(GetFirstLoadAddress(img), CanonicalBase)
  THEN [m |-> m, value |-> ZeroAddr, error |-> "InvalidFormat"]
  ELSE CopyLoadSegments(m, root, img)

\* LoadELF
LoadELF(m, root, img) ==
  IF img.e_type # "ET_EXEC"
  THEN [m |-> m, value |-> ZeroAddr, error |-> "InvalidFormat"]
  ELSE IF AddrLess(GetFirstLoadAddress(img), CanonicalBase)
  THEN [m |-> m, value |-> ZeroAddr, error |-> "InvalidFormat"]
  ELSE CopyLoadSegments(m, root, img)

\* a magic test that accepts every image
CheckElfMagic_Accepting(img) == "Success"

\* memcmp(elf_header->e_ident, "\x7f" "ELF", 4) != 0
CheckElfMagic(img) == IF ~img.magic THEN "InvalidFile" ELSE "Success"

\* SetupPML4 on the root cur found in CR3: a new table whose first 256
\* entries are those of cur.  The caller loads value into CR3 and
\* Context().cr3.
SetupPML4(m, cur) ==
  LET r == NewPageMap(m)
  IN IF r.error # "Success" THEN r
     ELSE [r EXCEPT !.m.tab[r.value] =
             [s \in Slots |-> IF s < 256 THEN m.tab[cur][s] ELSE 0]]

\* a FreePML4 that keeps the frame of the root
FreePML4_Keeping(m, root) == m

\* FreePML4 of the root found in Context().cr3
FreePML4(m, root) == FreePageMap(m, root)

\* app_loads is a std::map, held as its set of (key, value) entries.
\* app_loads->find(&file_entry)
Cached(map, k) == \E e \in map : e.key = k
Lookup(map, k) == (CHOOSE e \in map : e.key = k).load
\* an insert that adds the pair whether or not the key is present
MapInsert_Always(map, k, v) == map \cup {[key |-> k, load |-> v]}

\* app_loads->insert(std::make_pair(&file_entry, app_load)): an entry whose
\* key is present already is kept, and nothing is inserted
MapInsert(map, k, v) ==
  IF Cached(map, k) THEN map ELSE map \cup {[key |-> k, load |-> v]}

(* ---------------------------- terminal tasks --------------------------- *)
\* the task InitializeTask makes of the running boot context, and the
\* background task that is runnable from then on
MainTask == 1
IdleTask == 2
\* the tasks that run TaskTerminal and may execute files
Terminals == {3, 4}
\* the argument strings a command line may carry: none, and 32 arguments
\* (one more than argv has room for beside the command)
ManyArgs == [i \in 1 .. 64 |-> IF i % 2 = 1 THEN "a" ELSE " "]
FirstArgs == {NoArg, ManyArgs}
Command == << "a", "p", "p" >>

NoLoad == [vaddr_end |-> ZeroAddr, entry |-> ZeroAddr, pml4 |-> 0]
NoHist == [cr3 |-> 0, ctx |-> 0, owned |-> {}, stray |-> {}, hit |-> FALSE,
           n0 |-> 0, solo |-> FALSE]

\* the frames a root reaches through the slots CopyPageMaps aliases and above
UserSlots == {s \in Slots : s >= AliasFirst}
UserTables(m, root) == {m.tab[root][s] : s \in UserSlots} \ {0}
RootFrames(m, root) ==
  {root} \cup UserTables(m, root)
         \cup UNION {LeavesOf(m, t) : t \in UserTables(m, root) \cap DOMAIN m.low}

\* bookkeeping of a step of a task that took memory from m0 to m1: frames
\* the call allocated and still holds, frames it freed without holding them
Track(h, m0, m1) ==
  [h EXCEPT !.owned = (@ \cup (m1.alloc \ m0.alloc)) \ (m0.alloc \ m1.alloc),
            !.stray = @ \cup ((m0.alloc \ m1.alloc) \ h.owned)]

SetMem(m) ==
  /\ allocated' = m.alloc
  /\ pml4tab' = m.tab
  /\ lower' = m.low

\* a hit path that hands out the cached AppLoadInfo as it is
LoadAppHit_Canonical(m, temp, cached) ==
  [m |-> m, app_load |-> cached, error |-> "Success"]

\* LoadApp on a cache hit: the cached root is aliased into temp_pml4 and
\* the cached AppLoadInfo is returned with temp_pml4 as its root
LoadAppHit(m, temp, cached) ==
  [m |-> CopyPageMaps(m, temp, cached.pml4, AliasFirst, AliasEnd),
   app_load |-> [cached EXCEPT !.pml4 = temp],
   error |-> "Success"]

\* LoadApp on a cache miss, up to the AppLoadInfo it inserts: the file is
\* read, its magic checked, and LoadELF maps the segments into temp_pml4,
\* the root in CR3
LoadAppMiss(m, temp, img) ==
  LET e == CheckElfMagic(img)
      r == LoadELF(m, temp, img)
  IN IF e # "Success" THEN [m |-> m, app_load |-> NoLoad, error |-> e]
     ELSE IF r.error # "Success"
     THEN [m |-> r.m, app_load |-> NoLoad, error |-> r.error]
     ELSE [m |-> r.m,
           app_load |-> [vaddr_end |-> r.value, entry |-> img.e_entry,
                         pml4 |-> temp],
           error |-> "Success"]

\* ExecuteFile between LoadApp and CallApp: the argument frame is mapped,
\* MakeArgVector fills it, the stack frames are mapped
ExecSetup(m, root, first_arg) ==
  LET r1 == SetupPageMaps(m, root, ArgsFrameAddr, 1)
      a == MakeArgVector(Command, first_arg, ArgvLen, ArgbufLen)
      r2 == SetupPageMaps(r1.m, root, StackFrameAddr, StackFrames)
  IN IF r1.error # "Success" THEN [m |-> r1.m, argc |-> 0, error |-> r1.error]
     ELSE IF a.error # "Success" THEN [m |-> r1.m, argc |-> a.argc, error |-> a.error]
     ELSE [m |-> r2.m, argc |-> a.argc, error |-> r2.error]

\* the kernel before any terminal has executed a file
ProgInit ==
  /\ allocated = {KernelPML4, KernelPDP}
  /\ pml4tab = (KernelPML4 :> [EmptyTable EXCEPT ![0] = KernelPDP])
  /\ lower = (KernelPDP :> NoMap)
  /\ app_loads = {}
  /\ snap = [f \in {} |-> 0]
  /\ cr3 = [t \in Terminals |-> KernelPML4]
  /\ ctx_cr3 = [t \in Terminals |-> KernelPML4]
  /\ pc = [t \in Terminals |-> "idle"]
  /\ file = [t \in Terminals |-> 0]
  /\ temp_pml4 = [t \in Terminals |-> 0]
  /\ app_load = [t \in Terminals |-> NoLoad]
  /\ err = [t \in Terminals |-> "Success"]
  /\ argc = [t \in Terminals |-> 0]
  /\ files = [t \in Terminals |-> 0]
  /\ dpaging = [t \in Terminals |-> << ZeroAddr, ZeroAddr >>]
  /\ filemap_end = [t \in Terminals |-> ZeroAddr]
  /\ ndemand = [t \in Terminals |-> 0]
  /\ nexecs = 0
  /\ hist = [t \in Terminals |-> NoHist]
  /\ filemaps = [t \in Terminals |-> 0]
  /\ latest_id = IdleTask
  /\ running = << MainTask, IdleTask >>
  /\ msgs = [i \in 1 .. MaxTasks |-> << >>]
  /\ task_err = "Success"
  /\ send_woke = 0

\* no window computation under way
AlignRest == load_end = ZeroAddr /\ dp_window = << >>

\* no MakeArgVector call under way
ArgRest ==
  /\ mv_command = Command
  /\ mv_first_arg = NoArg
  /\ mv_argv_len = ArgvLen
  /\ mv_argbuf_len = ArgbufLen
  /\ mv_result = << >>

\* no terminal task under way in TaskTerminal
NoMsg == "none"
TermTasks == 3 .. MaxTasks
TermRest ==
  /\ tpc = [t \in TermTasks |-> "none"]
  /\ intr = [t \in TermTasks |-> TRUE]
  /\ tmsg = [t \in TermTasks |-> NoMsg]
  /\ sent = [i \in 1 .. MaxTasks |-> << >>]
  /\ rcvd = [i \in 1 .. MaxTasks |-> << >>]

\* every terminal task is about to arm its first blink timer
BlinkRest ==
  /\ bl_pc = [t \in Terminals |-> "634"]
  /\ bl_timers = [t \in Terminals |-> 0]
  /\ bl_box = [t \in Terminals |-> << >>]
  /\ bl_msg = [t \in Terminals |-> NoMsg]
  /\ bl_keys = 0

\* a terminal with a window, no key to be given to InputKey
InKeyRest ==
  /\ ik_show = TRUE
  /\ ik_rest = << >>
  /\ ik_linebuf = << >>
  /\ ik_x = 0
  /\ ik_y = 0
  /\ ik_touched = {}
  /\ ik_state = "run"

Init ==
  ProgInit /\ AlignRest /\ ArgRest /\ TermRest /\ BlinkRest /\ InKeyRest

\* Terminal::ExecuteFile is entered on file f: the current task is looked
\* up with interrupts disabled, interrupts are enabled again, and LoadApp
\* runs its first SetupPML4 and looks f up in app_loads.
ExecuteFile(t, f) ==
  /\ pc[t] = "idle"
  /\ nexecs < MaxExecs
  /\ nexecs' = nexecs + 1
  /\ file' = [file EXCEPT ![t] = f]
  /\ LET h0 == [cr3 |-> cr3[t], ctx |-> ctx_cr3[t], owned |-> {},
                stray |-> {}, hit |-> Cached(app_loads, f),
                n0 |-> Cardinality(allocated),
                solo |-> \A u \in Terminals \ {t} : pc[u] = "idle"]
         others == [u \in Terminals |-> [hist[u] EXCEPT !.solo = FALSE]]
         r == SetupPML4(MemOf(t), cr3[t])
         hitr == LoadAppHit(r.m, r.value, Lookup(app_loads, f))
     IN IF r.error # "Success"
        THEN /\ err' = [err EXCEPT ![t] = r.error]
             /\ pc' = [pc EXCEPT ![t] = "ret"]
             /\ hist' = [others EXCEPT ![t] = h0]
             /\ UNCHANGED << memVars, cr3, ctx_cr3, temp_pml4, app_load >>
        ELSE /\ temp_pml4' = [temp_pml4 EXCEPT ![t] = r.value]
             /\ cr3' = [cr3 EXCEPT ![t] = r.value]
             /\ ctx_cr3' = [ctx_cr3 EXCEPT ![t] = r.value]
             /\ err' = [err EXCEPT ![t] = "Success"]
             /\ IF Cached(app_loads, f)
                THEN /\ SetMem(hitr.m)
                     /\ hist' = [others EXCEPT ![t] = Track(h0, MemOf(t), hitr.m)]
                     /\ app_load' = [app_load EXCEPT ![t] = hitr.app_load]
                     /\ pc' = [pc EXCEPT ![t] = "setup"]
                ELSE /\ SetMem(r.m)
                     /\ hist' = [others EXCEPT ![t] = Track(h0, MemOf(t), r.m)]
                     /\ pc' = [pc EXCEPT ![t] = "load"]
                     /\ UNCHANGED app_load
  /\ UNCHANGED << app_loads, snap, argc, files, dpaging, filemap_end, ndemand >>
  /\ UNCHANGED << taskVars, filemaps, restVars >>

\* LoadApp on the miss path: the file is loaded into temp_pml4 and the
\* result is inserted into app_loads
LoadApp_Load(t) ==
  /\ pc[t] = "load"
  /\ LET r == LoadAppMiss(MemOf(t), temp_pml4[t], FileImage(file[t]))
         h == Track(hist[t], MemOf(t), r.m)
     IN /\ SetMem(r.m)
        /\ IF r.error # "Success"
           THEN /\ err' = [err EXCEPT ![t] = r.error]
                /\ pc' = [pc EXCEPT ![t] = "ret"]
                /\ hist' = [hist EXCEPT ![t] = h]
                /\ UNCHANGED << app_load, app_loads, snap >>
           ELSE /\ app_load' = [app_load EXCEPT ![t] = r.app_load]
                /\ app_loads' = MapInsert(app_loads, file[t], r.app_load)
                /\ IF Cached(app_loads, file[t])
                   THEN /\ hist' = [hist EXCEPT ![t] = h]
                        /\ UNCHANGED snap
                   ELSE /\ snap' =
                             (file[t] :> [tab |-> r.m.tab[temp_pml4[t]],
                                          low |-> [x \in UserTables(r.m, temp_pml4[t])
                                                     |-> r.m.low[x]]]) @@ snap
                        /\ hist' = [hist EXCEPT ![t] =
                             [h EXCEPT !.owned = @ \ RootFrames(r.m, temp_pml4[t])]]
                /\ pc' = [pc EXCEPT ![t] = "root2"]
                /\ UNCHANGED err
  /\ UNCHANGED << cr3, ctx_cr3, file, temp_pml4, argc, files, dpaging,
                  filemap_end, ndemand, nexecs >>
  /\ UNCHANGED << taskVars, filemaps, restVars >>

\* a miss path that returns the loaded root itself
LoadApp_NoRoot2(t) ==
  /\ pc[t] = "root2"
  /\ pc' = [pc EXCEPT ![t] = "setup"]
  /\ UNCHANGED << memVars, app_loads, snap, cr3, ctx_cr3, file, temp_pml4,
                  app_load, err, argc, files, dpaging, filemap_end, ndemand,
                  nexecs, hist >>
  /\ UNCHANGED << taskVars, filemaps, restVars >>

\* LoadApp on the miss path: the second SetupPML4 and the aliasing of the
\* loaded root into it
LoadApp_Root2(t) ==
  /\ pc[t] = "root2"
  /\ LET r == SetupPML4(MemOf(t), cr3[t])
         m2 == CopyPageMaps(r.m, r.value, temp_pml4[t], AliasFirst, AliasEnd)
     IN IF r.error # "Success"
        THEN /\ err' = [err EXCEPT ![t] = r.error]
             /\ pc' = [pc EXCEPT ![t] = "ret"]
             /\ UNCHANGED << memVars, hist, cr3, ctx_cr3, app_load >>
        ELSE /\ SetMem(m2)
             /\ hist' = [hist EXCEPT ![t] = Track(@, MemOf(t), m2)]
             /\ cr3' = [cr3 EXCEPT ![t] = r.value]
             /\ ctx_cr3' = [ctx_cr3 EXCEPT ![t] = r.value]
             /\ app_load' = [app_load EXCEPT ![t].pml4 = r.value]
             /\ pc' = [pc EXCEPT ![t] = "setup"]
             /\ UNCHANGED err
  /\ UNCHANGED << app_loads, snap, file, temp_pml4, argc, files, dpaging,
                  filemap_end, ndemand, nexecs >>
  /\ UNCHANGED << taskVars, filemaps, restVars >>

\* ExecuteFile with argument string a: the argument frame and the stack are
\* set up; then the descriptors, the demand-paging window and the file-map
\* boundary are set and CallApp enters the application
Exec_Setup(t, a) ==
  /\ pc[t] = "setup"
  /\ LET r == ExecSetup(MemOf(t), cr3[t], a)
         elf_next_page == PageAlignUp(app_load[t].vaddr_end)
     IN /\ SetMem(r.m)
        /\ hist' = [hist EXCEPT ![t] = Track(@, MemOf(t), r.m)]
        /\ IF r.error # "Success"
           THEN /\ err' = [err EXCEPT ![t] = r.error]
                /\ pc' = [pc EXCEPT ![t] = "ret"]
                /\ UNCHANGED << argc, files, dpaging, filemap_end >>
           ELSE /\ argc' = [argc EXCEPT ![t] = r.argc]
                /\ files' = [files EXCEPT ![t] = @ + NumStdFiles]
                /\ dpaging' = [dpaging EXCEPT
                                 ![t] = << elf_next_page, elf_next_page >>]
                /\ filemap_end' = [filemap_end EXCEPT ![t] = StackFrameAddr]
                /\ pc' = [pc EXCEPT ![t] = "app"]
                /\ UNCHANGED err
  /\ UNCHANGED << app_loads, snap, cr3, ctx_cr3, file, temp_pml4, app_load,
                  ndemand, nexecs >>
  /\ UNCHANGED << taskVars, filemaps, restVars >>

\* The running application touches the page at the end of its demand-paging
\* window: the page-fault handler maps one frame there and moves the end.
App_DemandPage(t) ==
  /\ pc[t] = "app"
  /\ ndemand[t] < MaxDemand
  /\ LET r == SetupPageMaps(MemOf(t), cr3[t], dpaging[t][2], 1)
     IN /\ r.error = "Success"
        /\ SetMem(r.m)
        /\ hist' = [hist EXCEPT ![t] = Track(@, MemOf(t), r.m)]
  /\ dpaging' = [dpaging EXCEPT ![t][2] = AddrAdd(@, PageSize)]
  /\ ndemand' = [ndemand EXCEPT ![t] = @ + 1]
  /\ UNCHANGED << app_loads, snap, cr3, ctx_cr3, pc, file, temp_pml4,
                  app_load, err, argc, files, filemap_end, nexecs >>
  /\ UNCHANGED << taskVars, filemaps, restVars >>

\* The running application maps a file: an entry is added to the task's
\* file-map table.
App_MapFile(t) ==
  /\ pc[t] = "app"
  /\ filemaps[t] < MaxFileMaps
  /\ filemaps' = [filemaps EXCEPT ![t] = @ + 1]
  /\ UNCHANGED << memVars, app_loads, snap, cr3, ctx_cr3, pc, file, temp_pml4,
                  app_load, err, argc, files, dpaging, filemap_end, ndemand,
                  nexecs, hist >>
  /\ UNCHANGED << taskVars, restVars >>

\* a return from CallApp that leaves the descriptors and file maps
Exec_AppReturn_Keeping(t) ==
  /\ pc[t] = "app"
  /\ pc' = [pc EXCEPT ![t] = "clean"]
  /\ UNCHANGED << memVars, app_loads, snap, cr3, ctx_cr3, file, temp_pml4,
                  app_load, err, argc, dpaging, filemap_end, ndemand, nexecs,
                  hist, files, filemaps >>
  /\ UNCHANGED << taskVars, restVars >>

\* ExecuteFile: CallApp returns, the exit line is printed, the descriptors
\* and the file maps are cleared
Exec_AppReturn(t) ==
  /\ pc[t] = "app"
  /\ files' = [files EXCEPT ![t] = 0]
  /\ pc' = [pc EXCEPT ![t] = "clean"]
  /\ UNCHANGED << memVars, app_loads, snap, cr3, ctx_cr3, file, temp_pml4,
                  app_load, err, argc, dpaging, filemap_end, ndemand, nexecs,
                  hist >>
  /\ filemaps' = [filemaps EXCEPT ![t] = 0]
  /\ UNCHANGED << taskVars, restVars >>

\* a teardown that starts at the first aliased slot
CleanFromLow == Addr(0, AliasFirst, 0, 0)

\* the address ExecuteFile hands to CleanPageMaps
CleanFrom == CanonicalBase

\* ExecuteFile: CleanPageMaps on the root in CR3
Exec_Clean(t) ==
  /\ pc[t] = "clean"
  /\ LET m == CleanPageMaps(MemOf(t), cr3[t], CleanFrom)
     IN /\ SetMem(m)
        /\ hist' = [hist EXCEPT ![t] = Track(@, MemOf(t), m)]
  /\ pc' = [pc EXCEPT ![t] = "free"]
  /\ UNCHANGED << app_loads, snap, cr3, ctx_cr3, file, temp_pml4, app_load,
                  err, argc, files, dpaging, filemap_end, ndemand, nexecs >>
  /\ UNCHANGED << taskVars, filemaps, restVars >>

\* ExecuteFile: FreePML4 clears Context().cr3, resets CR3 to the kernel's
\* table and frees the root, and ExecuteFile returns its result
Exec_FreePML4(t) ==
  /\ pc[t] = "free"
  /\ ctx_cr3' = [ctx_cr3 EXCEPT ![t] = 0]
  /\ cr3' = [cr3 EXCEPT ![t] = KernelPML4]
  /\ LET m == FreePML4(MemOf(t), ctx_cr3[t])
     IN /\ SetMem(m)
        /\ hist' = [hist EXCEPT ![t] = Track(@, MemOf(t), m)]
  /\ err' = [err EXCEPT ![t] = "Success"]
  /\ pc' = [pc EXCEPT ![t] = "ret"]
  /\ UNCHANGED << app_loads, snap, file, temp_pml4, app_load, argc, files,
                  dpaging, filemap_end, ndemand, nexecs >>
  /\ UNCHANGED << taskVars, filemaps, restVars >>

\* ExecuteFile has returned to ExecuteLine; the terminal is ready for the
\* next command line
Exec_Return(t) ==
  /\ pc[t] = "ret"
  /\ pc' = [pc EXCEPT ![t] = "idle"]
  /\ file' = [file EXCEPT ![t] = 0]
  /\ temp_pml4' = [temp_pml4 EXCEPT ![t] = 0]
  /\ app_load' = [app_load EXCEPT ![t] = NoLoad]
  /\ err' = [err EXCEPT ![t] = "Success"]
  /\ argc' = [argc EXCEPT ![t] = 0]
  /\ ndemand' = [ndemand EXCEPT ![t] = 0]
  /\ dpaging' = [dpaging EXCEPT ![t] = << ZeroAddr, ZeroAddr >>]
  /\ filemap_end' = [filemap_end EXCEPT ![t] = ZeroAddr]
  /\ hist' = [hist EXCEPT ![t] = NoHist]
  /\ UNCHANGED << memVars, app_loads, snap, cr3, ctx_cr3, files, nexecs >>
  /\ UNCHANGED << taskVars, filemaps, restVars >>

Next ==
  \E t \in Terminals :
    \/ \E f \in Files : ExecuteFile(t, f)
    \/ LoadApp_Load(t)
    \/ LoadApp_Root2(t)
    \/ \E a \in FirstArgs : Exec_Setup(t, a)
    \/ App_DemandPage(t)
    \/ Exec_AppReturn(t)
    \/ Exec_Clean(t)
    \/ Exec_FreePML4(t)
    \/ Exec_Return(t)

Spec == Init /\ [][Next]_vars

\* The same calls with applications that map files as well, for the files
\* that load.
LoadableFiles == {f \in Files : FileImage(f).magic
                                /\ ~AddrLess(GetFirstLoadAddress(FileImage(f)),
                                             CanonicalBase)
                                /\ FileImage(f).e_type = "ET_EXEC"}
RunNext ==
  \E t \in Terminals :
    \/ \E f \in LoadableFiles : ExecuteFile(t, f)
    \/ LoadApp_Load(t)
    \/ LoadApp_Root2(t)
    \/ \E a \in FirstArgs : Exec_Setup(t, a)
    \/ App_DemandPage(t)
    \/ App_MapFile(t)
    \/ Exec_AppReturn(t)
    \/ Exec_Clean(t)
    \/ Exec_FreePML4(t)
    \/ Exec_Return(t)

RunSpec == Init /\ [][RunNext]_vars

(* ------------------------ MakeArgVector by itself ---------------------- *)
\* the strings of at most n characters of cs
RECURSIVE Strings(_, _)
Strings(cs, n) ==
  IF n = 0 THEN {<< >>}
  ELSE LET S == Strings(cs, n - 1)
       IN S \cup {Append(x, c) : x \in S, c \in cs}
\* k one-letter arguments with single spaces between them
TokenRun(k) == [i \in 1 .. 2 * k - 1 |-> IF i % 2 = 1 THEN "a" ELSE " "]

Commands == {Command, << "c", "a", "t" >>}
ArgStrings ==
  {NoArg, << "f", "o", "o", ".", "t", "x", "t" >>}
    \cup Strings({"a", "b", " "}, MaxArgChars)
    \cup {TokenRun(k) : k \in ArgvLen - 2 .. ArgvLen + 1}
\* the capacities ExecuteFile passes, a short argv, and short string buffers
Capacities ==
  {<< ArgvLen, ArgbufLen >>, << 2, ArgbufLen >>}
    \cup {<< ArgvLen, b >> : b \in 0 .. MaxArgbuf}

ArgInit ==
  /\ ProgInit
  /\ AlignRest
  /\ mv_command \in Commands
  /\ mv_first_arg \in ArgStrings
  /\ \E c \in Capacities : mv_argv_len = c[1] /\ mv_argbuf_len = c[2]
  /\ mv_result = << >>
  /\ TermRest
  /\ BlinkRest
  /\ InKeyRest

\* the call MakeArgVector(command, first_arg, argv, argv_len, argbuf,
\* argbuf_len)
CallMakeArgVector ==
  /\ mv_result = << >>
  /\ mv_result' = << MakeArgVector(mv_command, mv_first_arg, mv_argv_len,
                                   mv_argbuf_len) >>
  /\ UNCHANGED << mv_command, mv_first_arg, mv_argv_len, mv_argbuf_len >>
  /\ UNCHANGED << memVars, execVars, taskVars, alignVars, termVars, blinkVars,
               inkeyVars >>

ArgNext == CallMakeArgVector

ArgSpec == ArgInit /\ [][ArgNext]_vars

(* ----------------------- the demand-paging window ---------------------- *)
\* load ends over the whole 64-bit range: both halves, the first, a middle
\* and the last top-level slot, the first, second and last page of a slot,
\* and offsets on, just after, amid and just before a page boundary
LoadEnds ==
  {Addr(h, s, p, o) : h \in {0, 65535}, s \in {0, 256, 511},
                      p \in {0, 1, PagesPerSlot - 1},
                      o \in {0, 1, 2048, PageSize - 1}}

AlignInit ==
  /\ ProgInit
  /\ load_end \in LoadEnds
  /\ dp_window = << >>
  /\ ArgRest
  /\ TermRest
  /\ BlinkRest
  /\ InKeyRest

\* ExecuteFile: elf_next_page = (app_load.vaddr_end + 4095) &
\* 0xffff'ffff'ffff'f000, given to SetDPagingBegin and SetDPagingEnd
SetDPaging ==
  /\ dp_window = << >>
  /\ dp_window' = << PageAlignUp(load_end), PageAlignUp(load_end) >>
  /\ UNCHANGED << load_end, memVars, execVars, taskVars, argVars, termVars,
               blinkVars, inkeyVars >>

\* the next call, on another load end
NextLoadEnd ==
  /\ dp_window # << >>
  /\ load_end' \in LoadEnds
  /\ dp_window' = << >>
  /\ UNCHANGED << memVars, execVars, taskVars, argVars, termVars, blinkVars,
               inkeyVars >>

AlignNext == SetDPaging \/ NextLoadEnd

AlignSpec == AlignInit /\ [][AlignNext]_vars

(* ----------------------------- the scheduler --------------------------- *)
\* the ids a caller may pass; those above latest_id_ name no task
TaskIds == 1 .. MaxTasks
\* the message types an interrupt source delivers, and the one a terminal
\* sends to the main task
InterruptMsgs == {"kTimerTimeout", "kKeyPush"}
LayerMsg == "kLayer"
Live(id) == id \in 1 .. latest_id
Range(q) == {q[i] : i \in 1 .. Len(q)}
Without(q, id) == SelectSeq(q, LAMBDA x : x # id)
\* the messages waiting in the mailboxes of tasks 1 .. n
RECURSIVE Waiting(_)
Waiting(n) == IF n = 0 THEN 0 ELSE Len(msgs[n]) + Waiting(n - 1)
InFlight == Waiting(MaxTasks)
exec_unchanged == UNCHANGED << memVars, execVars, restVars >>

\* TaskManager::CurrentTask: the front of running_
CurrentTask == Head(running)

\* the queue SwitchTask leaves: the front is popped and, unless it is to
\* sleep, pushed to the back; the new front is dispatched
SwitchQueue(q, current_sleep) ==
  IF current_sleep THEN Tail(q) ELSE Append(Tail(q), Head(q))

\* a Wakeup that appends the task whether or not it is in the queue
WakeupQueue_Always(q, id) == Append(q, id)

\* the queue Wakeup(task) leaves: the task is appended unless it is there
WakeupQueue(q, id) == IF id \in Range(q) THEN q ELSE Append(q, id)

\* a Sleep that moves the front to the back of the queue
SleepQueue_Requeue(q, id) ==
  IF id \notin Range(q) THEN q
  ELSE IF id = Head(q) THEN SwitchQueue(q, FALSE)
  ELSE Without(q, id)

\* the queue Sleep(task) leaves: a task not in the queue stays asleep, the
\* front is taken out by SwitchTask(true), another task is erased
SleepQueue(q, id) ==
  IF id \notin Range(q) THEN q
  ELSE IF id = Head(q) THEN SwitchQueue(q, TRUE)
  ELSE Without(q, id)

\* TaskManager::NewTask: a task with the next id, not enqueued
NewTask ==
  /\ latest_id < MaxTasks
  /\ latest_id' = latest_id + 1
  /\ send_woke' = 0
  /\ UNCHANGED << running, msgs, task_err >>
  /\ exec_unchanged

\* TaskManager::SwitchTask(), as the timer interrupt calls it
SwitchTask ==
  /\ running' = SwitchQueue(running, FALSE)
  /\ send_woke' = 0
  /\ UNCHANGED << latest_id, msgs, task_err >>
  /\ exec_unchanged

\* TaskManager::Sleep(id).  The idle task runs no code that sleeps and no
\* caller names it.
Sleep(id) ==
  /\ id # IdleTask
  /\ IF ~Live(id)
     THEN /\ task_err' = "NotFound"
          /\ UNCHANGED running
     ELSE /\ task_err' = "Success"
          /\ running' = SleepQueue(running, id)
  /\ send_woke' = 0
  /\ UNCHANGED << latest_id, msgs >>
  /\ exec_unchanged

\* TaskManager::Wakeup(id)
Wakeup(id) ==
  /\ IF ~Live(id)
     THEN /\ task_err' = "NotFound"
          /\ UNCHANGED running
     ELSE /\ task_err' = "Success"
          /\ running' = WakeupQueue(running, id)
  /\ send_woke' = 0
  /\ UNCHANGED << latest_id, msgs >>
  /\ exec_unchanged

\* a SendMessage that queues the message and leaves the task as it is
SendMessage_NoWakeup(id, msg) ==
  /\ InFlight < MaxMsgs
  /\ IF ~Live(id)
     THEN /\ task_err' = "NotFound"
          /\ UNCHANGED << msgs, send_woke >>
     ELSE /\ task_err' = "Success"
          /\ msgs' = [msgs EXCEPT ![id] = Append(@, msg)]
          /\ send_woke' = IF id \in Range(running) THEN 0 ELSE id
  /\ UNCHANGED << latest_id, running >>
  /\ exec_unchanged

\* TaskManager::SendMessage(id, msg): the message is appended to the
\* task's mailbox and the task is woken
SendMessage(id, msg) ==
  /\ InFlight < MaxMsgs
  /\ IF ~Live(id)
     THEN /\ task_err' = "NotFound"
          /\ send_woke' = 0
          /\ UNCHANGED << msgs, running >>
     ELSE /\ task_err' = "Success"
          /\ msgs' = [msgs EXCEPT ![id] = Append(@, msg)]
          /\ running' = WakeupQueue(running, id)
          /\ send_woke' = IF id \in Range(running) THEN 0 ELSE id
  /\ UNCHANGED latest_id
  /\ exec_unchanged

\* Task::ReceiveMessage of the running task with a message waiting: the
\* oldest is popped
ReceiveMessage ==
  /\ msgs[CurrentTask] # << >>
  /\ msgs' = [msgs EXCEPT ![CurrentTask] = Tail(@)]
  /\ send_woke' = 0
  /\ UNCHANGED << latest_id, running, task_err >>
  /\ exec_unchanged

\* The end of Terminal::Print(const char*, optional<size_t>): the running
\* terminal task t sends the draw-area message to task 1 between cli and
\* sti.
Terminal_Redraw(t) ==
  /\ Live(t)
  /\ CurrentTask = t
  /\ SendMessage(MainTask, LayerMsg)

TaskNext ==
  \/ NewTask
  \/ SwitchTask
  \/ \E id \in TaskIds : Sleep(id)
  \/ \E id \in TaskIds : Wakeup(id)
  \/ \E id \in TaskIds, msg \in InterruptMsgs : SendMessage(id, msg)
  \/ ReceiveMessage
  \/ \E t \in Terminals : Terminal_Redraw(t)

TaskSpec == Init /\ [][TaskNext]_vars

(* --------------------------- the terminal loops ------------------------ *)
\* TaskTerminal and TerminalFileDescriptor::Read on the one processor: a
\* terminal task executes a line when it is the front of the run queue, an
\* interrupt is taken when the interrupt flag of the running context is
\* set, and the flag is saved and restored with the context.

\* a ReceiveMessage that takes the newest message
TaskReceive_Newest(box) ==
  IF box = << >> THEN [msg |-> NoMsg, box |-> box]
  ELSE [msg |-> box[Len(box)], box |-> SubSeq(box, 1, Len(box) - 1)]

\* Task::ReceiveMessage: the absent value and the mailbox as it is when it
\* is empty, else the oldest message and the rest
TaskReceive(box) ==
  IF box = << >> THEN [msg |-> NoMsg, box |-> box]
  ELSE [msg |-> Head(box), box |-> Tail(box)]

\* show_window of TaskTerminal: the terminal the main task starts has a
\* window, one started by noterm has a command line and none
ShowWindow(t) == t = 3
\* the interrupt flag of the processor
IntrOn == IF CurrentTask \in TermTasks THEN intr[CurrentTask] ELSE TRUE
\* the messages delivered to terminal tasks so far
RECURSIVE SentTo(_)
SentTo(n) == IF n < 3 THEN 0 ELSE Len(sent[n]) + SentTo(n - 1)
\* a terminal task registered with the layer map and the timer manager
Started(t) == tpc[t] \notin {"none", "611", "612", "620"}

Runs(t, line) == CurrentTask = t /\ tpc[t] = line
Goto(t, line) == tpc' = [tpc EXCEPT ![t] = line]
term_unchanged ==
  UNCHANGED << memVars, execVars, alignVars, argVars, blinkVars, inkeyVars,
               task_err, send_woke >>

\* TaskManager::SendMessage(id, msg) as the terminal code and the interrupt
\* handlers call it on a task that exists
Deliver(id, msg) ==
  /\ msgs' = [msgs EXCEPT ![id] = Append(@, msg)]
  /\ running' = WakeupQueue(running, id)
  /\ sent' = [sent EXCEPT ![id] = Append(@, msg)]

\* the cli instructions and the lines they lead to; lines 576 to 578 of
\* Terminal::Print are named with the line of the call, 509 in ExecuteFile
\* and 715 in Read
CliLines == {<< "611", "612" >>, << "639", "640" >>, << "656", "657" >>,
             << "669", "670" >>, << "459", "460" >>, << "693", "694" >>,
             << "509:576", "509:577" >>, << "715:576", "715:577" >>}
\* the sti instructions and the lines they lead to; "app" is the
\* application ExecuteFile has called, "701" the test Read makes of msg,
\* "666" the test TaskTerminal makes when InputKey has returned
StiLines == {<< "620", "639" >>, << "643", "639" >>, << "647", "649" >>,
             << "658", "639" >>, << "671", "639" >>, << "461", "app" >>,
             << "699", "701" >>, << "715:578", "app" >>,
             << "509:578", "666" >>}

Term_Cli(t) ==
  /\ \E l \in CliLines : Runs(t, l[1]) /\ Goto(t, l[2])
  /\ intr' = [intr EXCEPT ![t] = FALSE]
  /\ UNCHANGED << tmsg, sent, rcvd, latest_id, running, msgs >>
  /\ term_unchanged

Term_Sti(t) ==
  /\ \E l \in StiLines : Runs(t, l[1]) /\ Goto(t, l[2])
  /\ intr' = [intr EXCEPT ![t] = TRUE]
  /\ UNCHANGED << tmsg, sent, rcvd, latest_id, running, msgs >>
  /\ term_unchanged

\* task_manager->CurrentTask() of TaskTerminal (612) and ExecuteFile (460)
Term_CurrentTask(t) ==
  /\ \/ Runs(t, "612") /\ Goto(t, "620")
     \/ Runs(t, "460") /\ Goto(t, "461")
  /\ UNCHANGED << intr, tmsg, sent, rcvd, latest_id, running, msgs >>
  /\ term_unchanged

\* a receive that enables interrupts when it finds the mailbox empty
Term_Receive_Open(t) ==
  /\ LET r == TaskReceive(msgs[t])
     IN  /\ \/ Runs(t, "640")
               /\ Goto(t, IF r.msg = NoMsg THEN "642" ELSE "647")
            \/ Runs(t, "694")
               /\ Goto(t, IF r.msg = NoMsg THEN "696" ELSE "699")
         /\ msgs' = [msgs EXCEPT ![t] = r.box]
         /\ tmsg' = [tmsg EXCEPT ![t] = r.msg]
         /\ rcvd' = IF r.msg = NoMsg THEN rcvd
                    ELSE [rcvd EXCEPT ![t] = Append(@, r.msg)]
         /\ intr' = IF r.msg = NoMsg THEN [intr EXCEPT ![t] = TRUE] ELSE intr
  /\ UNCHANGED << sent, latest_id, running >>
  /\ term_unchanged

\* auto msg = task.ReceiveMessage() of TaskTerminal (640) and of Read
\* (694), and the test of msg that follows
Term_Receive(t) ==
  /\ LET r == TaskReceive(msgs[t])
     IN  /\ \/ Runs(t, "640")
               /\ Goto(t, IF r.msg = NoMsg THEN "642" ELSE "647")
            \/ Runs(t, "694")
               /\ Goto(t, IF r.msg = NoMsg THEN "696" ELSE "699")
         /\ msgs' = [msgs EXCEPT ![t] = r.box]
         /\ tmsg' = [tmsg EXCEPT ![t] = r.msg]
         /\ rcvd' = IF r.msg = NoMsg THEN rcvd
                    ELSE [rcvd EXCEPT ![t] = Append(@, r.msg)]
  /\ UNCHANGED << intr, sent, latest_id, running >>
  /\ term_unchanged

\* task.Sleep() of TaskTerminal (642) and of Read (696): the task leaves
\* the queue, the next task is dispatched, and this one continues at the
\* line after the call when it is dispatched again
Term_Sleep(t) ==
  /\ \/ Runs(t, "642") /\ Goto(t, "643")
     \/ Runs(t, "696") /\ Goto(t, "693")
  /\ running' = SleepQueue(running, t)
  /\ UNCHANGED << intr, tmsg, sent, rcvd, latest_id, msgs >>
  /\ term_unchanged

\* the switch of TaskTerminal (649): a timer message re-arms the blink
\* timer and, with an active window, redraws the cursor; a key goes to
\* InputKey, whose line may be an ordinary one, "noterm", or a file to
\* execute
Term_Handle(t) ==
  /\ Runs(t, "649")
  /\ \/ /\ tmsg[t] = "kTimerTimeout"
        /\ \/ ShowWindow(t) /\ Goto(t, "656")
           \/ Goto(t, "639")
     \/ /\ tmsg[t] = "kKeyPush"
        /\ \/ Goto(t, "666")
           \/ latest_id < MaxTasks /\ Goto(t, "422")
           \/ Goto(t, "459")
  /\ tmsg' = [tmsg EXCEPT ![t] = NoMsg]
  /\ UNCHANGED << intr, sent, rcvd, latest_id, running, msgs >>
  /\ term_unchanged

\* task_manager->SendMessage(1, msg) of TaskTerminal (657, 670) and of
\* Terminal::Print (577)
Term_SendMain(t) ==
  /\ \/ Runs(t, "657") /\ Goto(t, "658")
     \/ Runs(t, "670") /\ Goto(t, "671")
     \/ Runs(t, "509:577") /\ Goto(t, "509:578")
     \/ Runs(t, "715:577") /\ Goto(t, "715:578")
  /\ Deliver(MainTask, LayerMsg)
  /\ UNCHANGED << intr, tmsg, rcvd, latest_id >>
  /\ term_unchanged

\* "noterm": task_manager->NewTask().InitContext(TaskTerminal, ...) (422,
\* 423); the task is to enter TaskTerminal when it is first dispatched
Term_NewTask(t) ==
  /\ Runs(t, "422")
  /\ latest_id < MaxTasks
  /\ latest_id' = latest_id + 1
  /\ tpc' = [tpc EXCEPT ![t] = "424", ![latest_id + 1] = "611"]
  /\ tmsg' = [tmsg EXCEPT ![t] = latest_id + 1]
  /\ UNCHANGED << intr, sent, rcvd, running, msgs >>
  /\ term_unchanged

\* "noterm": .Wakeup() of the task NewTask returned (424)
Term_Wakeup(t) ==
  /\ Runs(t, "424")
  /\ Goto(t, "666")
  /\ running' = WakeupQueue(running, tmsg[t])
  /\ tmsg' = [tmsg EXCEPT ![t] = NoMsg]
  /\ UNCHANGED << intr, sent, rcvd, latest_id, msgs >>
  /\ term_unchanged

\* the application ExecuteFile has called reads its standard input, or
\* returns, and ExecuteFile calls Print(s) at line 509
Term_App(t) ==
  /\ Runs(t, "app")
  /\ \/ Goto(t, "693")
     \/ Goto(t, "509:576")
  /\ UNCHANGED << intr, tmsg, sent, rcvd, latest_id, running, msgs >>
  /\ term_unchanged

\* Read (701-715): a message that is no key push is dropped and the loop
\* goes on; a key is echoed by term_.Print at line 715 and Read returns
Term_ReadKey(t) ==
  /\ Runs(t, "701")
  /\ Goto(t, IF tmsg[t] # "kKeyPush" THEN "693" ELSE "715:576")
  /\ tmsg' = [tmsg EXCEPT ![t] = NoMsg]
  /\ UNCHANGED << intr, sent, rcvd, latest_id, running, msgs >>
  /\ term_unchanged

\* TaskTerminal (666): InputKey has returned, and a terminal with a window
\* has the area redrawn
Term_KeyDone(t) ==
  /\ Runs(t, "666")
  /\ Goto(t, IF ShowWindow(t) THEN "669" ELSE "639")
  /\ UNCHANGED << intr, tmsg, sent, rcvd, latest_id, running, msgs >>
  /\ term_unchanged

\* an interrupt handler delivers a timer or key message to a terminal task
Int_Send(id, msg) ==
  /\ IntrOn
  /\ id \in TermTasks
  /\ Started(id)
  /\ SentTo(MaxTasks) < MaxSends
  /\ Deliver(id, msg)
  /\ UNCHANGED << tpc, intr, tmsg, rcvd, latest_id >>
  /\ term_unchanged

\* the timer interrupt calls task_manager->SwitchTask()
Int_Switch ==
  /\ IntrOn
  /\ running' = SwitchQueue(running, FALSE)
  /\ UNCHANGED << termVars, latest_id, msgs >>
  /\ term_unchanged

\* the main task starts the first terminal task
Main_StartTerminal ==
  /\ CurrentTask = MainTask
  /\ latest_id = IdleTask
  /\ latest_id' = latest_id + 1
  /\ tpc' = [tpc EXCEPT ![latest_id + 1] = "611"]
  /\ running' = WakeupQueue(running, latest_id + 1)
  /\ UNCHANGED << intr, tmsg, sent, rcvd, msgs >>
  /\ term_unchanged

\* the loop of the main task: it receives a message or goes to sleep
Main_Receive ==
  /\ CurrentTask = MainTask
  /\ latest_id > IdleTask
  /\ LET r == TaskReceive(msgs[MainTask])
     IN  IF r.msg = NoMsg
         THEN /\ running' = SleepQueue(running, MainTask)
              /\ UNCHANGED << msgs, rcvd >>
         ELSE /\ msgs' = [msgs EXCEPT ![MainTask] = r.box]
              /\ rcvd' = [rcvd EXCEPT ![MainTask] = Append(@, r.msg)]
              /\ UNCHANGED running
  /\ UNCHANGED << tpc, intr, tmsg, sent, latest_id >>
  /\ term_unchanged

TermStep(t) ==
  \/ Term_Cli(t)
  \/ Term_Sti(t)
  \/ Term_CurrentTask(t)
  \/ Term_Receive(t)
  \/ Term_Sleep(t)
  \/ Term_Handle(t)
  \/ Term_SendMain(t)
  \/ Term_NewTask(t)
  \/ Term_Wakeup(t)
  \/ Term_App(t)
  \/ Term_ReadKey(t)
  \/ Term_KeyDone(t)

TermNext ==
  \/ \E t \in TermTasks : TermStep(t)
  \/ \E id \in TermTasks, msg \in InterruptMsgs : Int_Send(id, msg)
  \/ Int_Switch
  \/ Main_StartTerminal
  \/ Main_Receive

TermSpec == Init /\ [][TermNext]_vars

\* The scheduler dispatches every runnable task again and again: the timer
\* interrupt is taken over and over while the interrupt flag keeps being
\* set, and a terminal task that is dispatched over and over executes.
TermFair ==
  /\ TermSpec
  /\ SF_vars(Int_Switch)
  /\ \A t \in TermTasks : SF_vars(TermStep(t))

(* ------------------- properties of the execution path ------------------ *)
\* LoadApp has returned a root to t and t has not released it yet
Holds(t) == pc[t] \in {"setup", "app", "clean", "free"}
CanonicalRoots == {e.load.pml4 : e \in app_loads}
\* the page -> frame mapping behind entry x of a top-level table
MapOf(low, x) == IF x \in DOMAIN low THEN low[x] ELSE NoMap
\* the translations of the slots from AliasFirst on of a root
Translation(tab, low, root) ==
  IF root \in DOMAIN tab
  THEN [s \in UserSlots |-> MapOf(low, tab[root][s])]
  ELSE [s \in UserSlots |-> NoMap]
\* the frames behind those translations, and the root
FramesOf(tab, low, root) ==
  IF root \in DOMAIN tab
  THEN {root} \cup ({tab[root][s] : s \in UserSlots} \ {0})
              \cup UNION {{MapOf(low, tab[root][s])[p] :
                             p \in DOMAIN MapOf(low, tab[root][s])} :
                          s \in UserSlots}
  ELSE {root}
InvalidFormatImage(img) ==
  /\ img.magic
  /\ \/ img.e_type # "ET_EXEC"
     \/ AddrLess(GetFirstLoadAddress(img), CanonicalBase)

\* C1: every root stored in app_loads is still allocated with the top-level
\* entries it was inserted with, every lower-level table and frame mapped
\* beneath it at insertion is still allocated and still mapped at the same
\* page, and no teardown has freed a frame its own call did not allocate.
C1_CacheFramesIntact ==
  /\ \A e \in app_loads :
       /\ e.load.pml4 \in allocated
       /\ e.load.pml4 \in DOMAIN pml4tab
       /\ e.key \in DOMAIN snap
       /\ pml4tab[e.load.pml4] = snap[e.key].tab
       /\ \A x \in DOMAIN snap[e.key].low :
            /\ x \in allocated
            /\ \A p \in DOMAIN snap[e.key].low[x] :
                 /\ p \in DOMAIN MapOf(lower, x)
                 /\ lower[x][p] = snap[e.key].low[x][p]
                 /\ lower[x][p] \in allocated
  /\ \A t \in Terminals : hist[t].stray = {}
\* a call that hit the cache entry of file 2 has run the application and
\* completed CleanPageMaps and FreePML4
C1_Witness ==
  \E t \in Terminals :
    /\ pc[t] = "ret" /\ err[t] = "Success"
    /\ file[t] = 2 /\ hist[t].hit
    /\ Cached(app_loads, 2)

\* C2: a CleanPageMaps or FreePML4 step of one task leaves the translations
\* of every other task that holds a root for the same file unchanged and
\* their frames allocated.
C2_OtherRootUntouched ==
  [][\A t, u \in Terminals :
       ( /\ t # u
         /\ pc[t] \in {"clean", "free"} /\ pc'[t] # pc[t]
         /\ Holds(u) /\ file[u] = file[t] )
       => /\ Translation(pml4tab', lower', cr3[u])
               = Translation(pml4tab, lower, cr3[u])
          /\ cr3[u] \in DOMAIN pml4tab'
          /\ pml4tab'[cr3[u]] = pml4tab[cr3[u]]
          /\ FramesOf(pml4tab, lower, cr3[u]) \subseteq allocated']_vars
\* t has released its root for file 2 while u still runs the application on
\* its own root for file 2
C2_Witness ==
  \E t, u \in Terminals :
    /\ t # u
    /\ pc[t] = "ret" /\ err[t] = "Success" /\ file[t] = 2
    /\ pc[u] = "app" /\ file[u] = 2 /\ hist[u].hit

\* C3: when ExecuteFile returns an error, Context().cr3 and CR3 have the
\* values they had when it was called and every frame the call allocated
\* has been freed.
C3_FailedExecRestoresState ==
  \A t \in Terminals :
    (pc[t] = "ret" /\ err[t] # "Success")
    => /\ ctx_cr3[t] = hist[t].ctx
       /\ cr3[t] = hist[t].cr3
       /\ hist[t].owned = {}

\* C4 as claimed: loading an image without the ELF magic fails with
\* InvalidFormat.
C4_BadMagicIsInvalidFormat ==
  \A t \in Terminals :
    (pc[t] = "ret" /\ file[t] # 0 /\ ~FileImage(file[t]).magic
       /\ err[t] # "OutOfMemory")
    => err[t] = "InvalidFormat"
\* C4 as amended: loading an image without the ELF magic fails, and with
\* InvalidFile whenever LoadApp got its root and reached the magic check.
C4_BadMagicIsInvalidFile ==
  \A t \in Terminals :
    (pc[t] = "ret" /\ file[t] # 0 /\ ~FileImage(file[t]).magic)
    => /\ err[t] \in {"InvalidFile", "OutOfMemory"}
       /\ temp_pml4[t] # 0 => err[t] = "InvalidFile"
C4_Witness ==
  \E t \in Terminals :
    pc[t] = "ret" /\ file[t] = 3 /\ err[t] = "InvalidFile"

\* C5: an image with the ELF magic whose type is not ET_EXEC, or whose first
\* PT_LOAD address is below 0xffff800000000000 (0 when it has no PT_LOAD),
\* fails with InvalidFormat once LoadApp has its root; the call has then
\* allocated nothing but that root, nothing is mapped at or above the
\* canonical base in it, and the file never gets an entry in app_loads.
C5_RejectedImageLoadsNothing ==
  /\ \A e \in app_loads : ~InvalidFormatImage(FileImage(e.key))
  /\ \A t \in Terminals :
       (pc[t] = "ret" /\ file[t] # 0 /\ InvalidFormatImage(FileImage(file[t]))
          /\ temp_pml4[t] # 0)
       => /\ err[t] = "InvalidFormat"
          /\ hist[t].owned = {temp_pml4[t]}
          /\ \A s \in Slots : s >= 256 => pml4tab[temp_pml4[t]][s] = 0
\* one terminal was refused an ET_DYN image and the other an image with no
\* PT_LOAD segment
C5_Witness ==
  \E t, u \in Terminals :
    /\ pc[t] = "ret" /\ file[t] = 4 /\ err[t] = "InvalidFormat"
    /\ pc[u] = "ret" /\ file[u] = 6 /\ err[u] = "InvalidFormat"

\* C6: the root LoadApp returns is a frame the call allocated, is no
\* canonical root and no other task's root, and its entries in the aliased
\* slots equal those of the canonical root of the file.
C6_PrivateRootAliasesCanonical ==
  \A t \in Terminals :
    pc[t] = "setup"
    => /\ app_load[t].pml4 \in hist[t].owned
       /\ app_load[t].pml4 \notin CanonicalRoots
       /\ \A u \in Terminals \ {t} : Holds(u) => cr3[u] # app_load[t].pml4
       /\ Cached(app_loads, file[t])
       /\ \A s \in Slots :
            (AliasFirst <= s /\ s < AliasEnd)
            => pml4tab[app_load[t].pml4][s]
                 = pml4tab[Lookup(app_loads, file[t]).pml4][s]

\* C7: app_loads never holds two entries for one file, and an entry, once
\* inserted, stays as it is: no step removes or changes one.
C7_CacheAppendOnly ==
  /\ [](\A e1, e2 \in app_loads : e1.key = e2.key => e1 = e2)
  /\ [][app_loads \subseteq app_loads']_vars
\* a load of a file that another task inserted meanwhile has gone through
\* its own insert, and the entry is the other task's
C7_Witness ==
  \E t \in Terminals :
    /\ pc[t] = "root2"
    /\ Lookup(app_loads, file[t]).pml4 # temp_pml4[t]

\* C8: when ExecuteFile returns success for a file that was in app_loads,
\* every frame the call allocated has been freed and it freed no other; if
\* no other task ran meanwhile, as many frames are allocated as before.
C8_FramesReclaimed ==
  \A t \in Terminals :
    (pc[t] = "ret" /\ err[t] = "Success" /\ hist[t].hit)
    => /\ hist[t].owned = {}
       /\ hist[t].stray = {}
       /\ hist[t].solo => Cardinality(allocated) = hist[t].n0
\* such a call, alone, whose application faulted a page in
C8_Witness ==
  \E t \in Terminals :
    /\ pc[t] = "ret" /\ err[t] = "Success" /\ hist[t].hit
    /\ hist[t].solo /\ ndemand[t] = MaxDemand

\* C18: a LoadApp that finds the file in app_loads does not go on to read
\* and validate the file; when it returns, exactly one frame has been
\* allocated and none freed, that frame is the root it returns, the root is
\* no canonical root, and load end and entry point are the cached ones.
C18_HitAllocatesOneRoot ==
  [][\A t \in Terminals :
       (pc[t] = "idle" /\ pc'[t] # "idle" /\ Cached(app_loads, file'[t]))
       => /\ pc'[t] \in {"setup", "ret"}
          /\ app_loads' = app_loads
          /\ pc'[t] = "ret" => err'[t] # "Success" /\ allocated' = allocated
          /\ pc'[t] = "setup"
               => /\ allocated \subseteq allocated'
                  /\ allocated' \ allocated = {app_load'[t].pml4}
                  /\ app_load'[t].pml4 \notin CanonicalRoots
                  /\ app_load'[t].vaddr_end
                       = Lookup(app_loads, file'[t]).vaddr_end
                  /\ app_load'[t].entry = Lookup(app_loads, file'[t]).entry]_vars
\* LoadApp has just returned from a hit on file 2 while the other terminal
\* runs the application on its own root
C18_Witness ==
  \E t, u \in Terminals :
    /\ pc[t] = "setup" /\ hist[t].hit /\ file[t] = 2
    /\ app_load[t].pml4 = temp_pml4[t]
    /\ pc[u] = "app" /\ file[u] = 2

\* C19: while the application runs, the task has its three descriptors, a
\* demand-paging window that begins at the page after the load end, and the
\* stack base as file-map boundary; when CleanPageMaps is about to run, the
\* descriptors and file maps are gone and the stack is still mapped; when
\* FreePML4 is about to run, nothing is mapped from the canonical base on
\* and the root is still allocated and in Context().cr3; and when
\* ExecuteFile has returned success, the task has no descriptors, no file
\* maps, Context().cr3 is 0 and the call no longer holds the root.
C19_StepsInOrder ==
  \A t \in Terminals :
    /\ pc[t] = "app"
         => /\ files[t] = NumStdFiles
            /\ dpaging[t][1] = PageAlignUp(app_load[t].vaddr_end)
            /\ ~AddrLess(dpaging[t][2], dpaging[t][1])
            /\ filemap_end[t] = StackFrameAddr
            /\ pml4tab[cr3[t]][511] # 0
    /\ pc[t] = "clean"
         => /\ files[t] = 0 /\ filemaps[t] = 0
            /\ ctx_cr3[t] = cr3[t] /\ cr3[t] \in allocated
            /\ pml4tab[cr3[t]][511] # 0
    /\ pc[t] = "free"
         => /\ files[t] = 0 /\ filemaps[t] = 0
            /\ ctx_cr3[t] = cr3[t] /\ cr3[t] \in allocated
            /\ \A s \in Slots : s >= 256 => pml4tab[cr3[t]][s] = 0
    /\ (pc[t] = "ret" /\ err[t] = "Success")
         => /\ files[t] = 0 /\ filemaps[t] = 0
            /\ ctx_cr3[t] = 0
            /\ app_load[t].pml4 \notin hist[t].owned
\* one call has returned success while the application of the other runs
\* with its descriptors and a mapped file
C19_Witness ==
  \E t, u \in Terminals :
    /\ pc[t] = "ret" /\ err[t] = "Success" /\ ctx_cr3[t] = 0
    /\ pc[u] = "app" /\ filemaps[u] = MaxFileMaps /\ files[u] = NumStdFiles

\* C20: the demand-paging window ExecuteFile sets begins and ends at the
\* same address, the smallest multiple of 4096 that is not below the load
\* end, whatever 64-bit address the load end is.
C20_WindowAtNextPage ==
  dp_window # << >>
  => /\ dp_window[1] = dp_window[2]
     /\ dp_window[1].off = 0
     /\ ~AddrLess(dp_window[1], load_end)
     /\ \/ dp_window[1] = load_end
        \/ /\ AddrLess([load_end EXCEPT !.off = 0], dp_window[1])
           /\ dp_window[1].hi = load_end.hi
                \/ dp_window[1].hi = load_end.hi + 1
           /\ AddrAdd([load_end EXCEPT !.off = 0], PageSize)
                = dp_window[1]

(* ----------------------- properties of MakeArgVector ------------------- *)
\* the maximal runs of non-space characters of a, by their positions
TokenStarts(a) ==
  {i \in 1 .. Len(a) : ~IsSpace(a[i]) /\ (i = 1 \/ IsSpace(a[i - 1]))}
TokenEnd(a, i) ==
  CHOOSE j \in i .. Len(a) :
    /\ \A k \in i .. j : ~IsSpace(a[k])
    /\ j = Len(a) \/ IsSpace(a[j + 1])
NthStart(a, k) ==
  CHOOSE i \in TokenStarts(a) :
    Cardinality({j \in TokenStarts(a) : j < i}) = k - 1
ArgTokens(a) ==
  IF a = NoArg THEN << >>
  ELSE [k \in 1 .. Cardinality(TokenStarts(a)) |->
          SubSeq(a, NthStart(a, k), TokenEnd(a, NthStart(a, k)))]
\* the argument vector the call is to build, and the bytes its first n
\* strings take with their terminators
Expected == << mv_command >> \o ArgTokens(mv_first_arg)
RECURSIVE Bytes(_, _)
Bytes(v, n) == IF n = 0 THEN 0 ELSE Len(v[n]) + 1 + Bytes(v, n - 1)
Returned == mv_result[1]

\* C13: when the command and the tokens of the argument string are no more
\* than argv has entries, and their strings fit the string buffer,
\* MakeArgVector returns success, argc is one more than the number of
\* tokens, argv[0] is the command and argv[i] the i-th token.
C13_ArgvIsCommandAndTokens ==
  ( /\ mv_result # << >>
    /\ Len(Expected) <= mv_argv_len
    /\ Bytes(Expected, Len(Expected)) <= mv_argbuf_len )
  => /\ Returned.error = "Success"
     /\ Returned.argc = Len(Expected)
     /\ Returned.argv = Expected
\* "cat" with "foo.txt" has given argc = 2
C13_Witness ==
  /\ mv_result # << >>
  /\ mv_command = << "c", "a", "t" >>
  /\ mv_first_arg = << "f", "o", "o", ".", "t", "x", "t" >>
  /\ mv_argv_len = ArgvLen /\ mv_argbuf_len = ArgbufLen
  /\ Returned.argc = 2
  /\ Returned.argv = << << "c", "a", "t" >>,
                        << "f", "o", "o", ".", "t", "x", "t" >> >>

\* C14: when the command and the tokens are more than argv has entries (32
\* as ExecuteFile calls it), and the strings of the first argv_len fit the
\* string buffer, MakeArgVector fails with Full, the count it returns is
\* argv_len, and argv and the string buffer hold the command and the first
\* argv_len - 1 tokens and nothing of the argument that did not fit.
C14_FullKeepsEntries ==
  ( /\ mv_result # << >>
    /\ Len(Expected) > mv_argv_len
    /\ Bytes(Expected, mv_argv_len) <= mv_argbuf_len )
  => /\ Returned.error = "Full"
     /\ Returned.argc = mv_argv_len
     /\ Returned.argv = SubSeq(Expected, 1, mv_argv_len)
     /\ Returned.argbuf_index = Bytes(Expected, mv_argv_len)
\* the command and 32 arguments: the 33rd push has failed
C14_Witness ==
  /\ mv_result # << >>
  /\ mv_argv_len = ArgvLen
  /\ mv_first_arg = TokenRun(ArgvLen)
  /\ Returned.error = "Full"
  /\ Returned.argc = ArgvLen
  /\ Len(Returned.argv) = ArgvLen

\* C15: MakeArgVector writes no byte at or beyond index argbuf_len of the
\* string buffer, and when the strings of a command line that is within
\* argv_len entries do not fit in argbuf_len bytes it fails with Full.
C15_NoWritePastArgbuf ==
  mv_result # << >>
  => /\ Returned.argbuf_index <= mv_argbuf_len
     /\ ( /\ Len(Expected) <= mv_argv_len
          /\ Bytes(Expected, Len(Expected)) > mv_argbuf_len )
        => Returned.error = "Full"

(* ----------------------------- the blink timer ------------------------- *)
\* The blink timer of a terminal task with the messages it leads to.  The
\* receives of TaskTerminal and of Read are taken with a message waiting;
\* with none the task sleeps until one is delivered.
blink_unchanged ==
  UNCHANGED << memVars, execVars, taskVars, alignVars, argVars, termVars,
               inkeyVars >>

\* the timeout messages in a mailbox
Timeouts(box) == Len(SelectSeq(box, LAMBDA m : m = "kTimerTimeout"))

\* the blink timers Read adds for a message it has received: it tests for
\* kKeyPush only (701-703) and goes on to the next receive
ReadRearm(msg) == 0

\* add_blink_timer(timer_manager->CurrentTick()) before the loop (630-634)
Blink_Arm(t) ==
  /\ bl_pc[t] = "634"
  /\ bl_pc' = [bl_pc EXCEPT ![t] = "639"]
  /\ bl_timers' = [bl_timers EXCEPT ![t] = @ + 1]
  /\ UNCHANGED << bl_box, bl_msg, bl_keys >>
  /\ blink_unchanged

\* the loop of TaskTerminal receives a message (639-647)
Blink_Receive(t) ==
  /\ bl_pc[t] = "639"
  /\ bl_box[t] # << >>
  /\ bl_msg' = [bl_msg EXCEPT ![t] = Head(bl_box[t])]
  /\ bl_box' = [bl_box EXCEPT ![t] = Tail(@)]
  /\ bl_pc' = [bl_pc EXCEPT ![t] = "649"]
  /\ UNCHANGED << bl_timers, bl_keys >>
  /\ blink_unchanged

\* the switch of TaskTerminal (649-680): kTimerTimeout calls
\* add_blink_timer(msg->arg.timer.timeout) at line 651; a key goes to
\* InputKey, which returns or executes a file
Blink_Handle(t) ==
  /\ bl_pc[t] = "649"
  /\ \/ /\ bl_msg[t] = "kTimerTimeout"
        /\ bl_timers' = [bl_timers EXCEPT ![t] = @ + 1]
        /\ bl_pc' = [bl_pc EXCEPT ![t] = "639"]
     \/ /\ bl_msg[t] = "kKeyPush"
        /\ \E l \in {"639", "app"} : bl_pc' = [bl_pc EXCEPT ![t] = l]
        /\ UNCHANGED bl_timers
  /\ bl_msg' = [bl_msg EXCEPT ![t] = NoMsg]
  /\ UNCHANGED << bl_box, bl_keys >>
  /\ blink_unchanged

\* the application reads its standard input or returns
Blink_App(t) ==
  /\ bl_pc[t] = "app"
  /\ \E l \in {"693", "639"} : bl_pc' = [bl_pc EXCEPT ![t] = l]
  /\ UNCHANGED << bl_timers, bl_box, bl_msg, bl_keys >>
  /\ blink_unchanged

\* TerminalFileDescriptor::Read receives a message (693-716): one that is
\* no key push is dropped and the loop goes on, a key makes Read return
Blink_Read(t) ==
  /\ bl_pc[t] = "693"
  /\ bl_box[t] # << >>
  /\ bl_box' = [bl_box EXCEPT ![t] = Tail(@)]
  /\ bl_timers' = [bl_timers EXCEPT ![t] = @ + ReadRearm(Head(bl_box[t]))]
  /\ bl_pc' = [bl_pc EXCEPT
                 ![t] = IF Head(bl_box[t]) = "kKeyPush" THEN "app" ELSE "693"]
  /\ UNCHANGED << bl_msg, bl_keys >>
  /\ blink_unchanged

\* the timer manager finds a blink timer of t due and sends t the timeout
Blink_Timeout(t) ==
  /\ bl_timers[t] > 0
  /\ bl_timers' = [bl_timers EXCEPT ![t] = @ - 1]
  /\ bl_box' = [bl_box EXCEPT ![t] = Append(@, "kTimerTimeout")]
  /\ UNCHANGED << bl_pc, bl_msg, bl_keys >>
  /\ blink_unchanged

\* a key is delivered to t
Blink_Key(t) ==
  /\ bl_keys < MaxKeys
  /\ bl_pc[t] # "634"
  /\ bl_keys' = bl_keys + 1
  /\ bl_box' = [bl_box EXCEPT ![t] = Append(@, "kKeyPush")]
  /\ UNCHANGED << bl_pc, bl_timers, bl_msg >>
  /\ blink_unchanged

BlinkNext ==
  \E t \in Terminals :
    \/ Blink_Arm(t)
    \/ Blink_Receive(t)
    \/ Blink_Handle(t)
    \/ Blink_App(t)
    \/ Blink_Read(t)
    \/ Blink_Timeout(t)
    \/ Blink_Key(t)

BlinkSpec == Init /\ [][BlinkNext]_vars

(* ------------------------------- InputKey ------------------------------ *)
\* Terminal::InputKey on the keys of a command line, as TaskTerminal feeds
\* them at lines 621-627 to a terminal without a window and as key
\* messages bring them to one with a window.  A terminal is the record of
\* show_window_, linebuf_, cursor_ and the lines at which window_ has been
\* dereferenced.  The lines enumerated are shorter than a row, so the tests
\* against kColumns and kLineMax are passed; a key with ascii = 0, which
\* alone reaches HistoryUpDown, is not among those of a command line.
inkey_unchanged ==
  UNCHANGED << memVars, execVars, taskVars, alignVars, argVars, termVars,
               blinkVars >>

\* the character '\b'
Backspace == "\\b"
Touch(st, lines) == [st EXCEPT !.touched = @ \cup lines]
\* Terminal::DrawCursor (315-320)
DrawCursor(st) == IF st.show THEN Touch(st, {318}) ELSE st
\* Terminal::Scroll1 (327-335)
Scroll1(st) == Touch(st, {332, 333})
\* cursor_.x = 0 and the step to the next row, of InputKey (273-278) and of
\* Print (526-533)
NewLine(st) ==
  IF st.y < kRows - 1 THEN [st EXCEPT !.x = 0, !.y = @ + 1]
  ELSE [Scroll1(st) EXCEPT !.x = 0]
\* Terminal::Print(char32_t) (521-550)
PrintChar(st, c) ==
  IF ~st.show THEN st
  ELSE IF c = "\n" THEN NewLine(st)
  ELSE [Touch(st, {541}) EXCEPT !.x = @ + 1]
RECURSIVE PrintChars(_, _)
PrintChars(st, s) ==
  IF s = << >> THEN st ELSE PrintChars(PrintChar(st, Head(s)), Tail(s))
\* Terminal::Print(const char*, optional<size_t>) (552-579) up to the
\* message it sends: the cursor is hidden, the characters are printed, the
\* cursor is shown, and draw_size is taken from window_->InnerSize()
PrintStr(st, s) ==
  Touch(DrawCursor(PrintChars(DrawCursor(st), s)), {569})

\* the terminal Terminal::Terminal(task_id, show_window) makes (232-250)
NewTerminal(show) ==
  LET blank == [show |-> show, linebuf |-> << >>, x |-> 0, y |-> 0,
                touched |-> {}]
  IN  IF show THEN PrintStr(Touch(blank, {235, 240, 243}), << ">" >>)
      ELSE blank

\* the position of the first space of a line, 0 when it has none
RECURSIVE FirstSpace(_, _)
FirstSpace(line, i) ==
  IF i > Len(line) THEN 0
  ELSE IF line[i] = " " THEN i
  ELSE FirstSpace(line, i + 1)

NoSuchCommand ==
  << "n", "o", " ", "s", "u", "c", "h", " ", "c", "o", "m", "m", "a", "n",
     "d", ":", " " >>

\* Terminal::ExecuteLine (337-455) for echo, clear, noterm, the empty line
\* and a command that names no file
ExecuteLine(st) ==
  LET sp == FirstSpace(st.linebuf, 1)
      command == IF sp = 0 THEN st.linebuf ELSE SubSeq(st.linebuf, 1, sp - 1)
      first_arg == SubSeq(st.linebuf, sp + 1, Len(st.linebuf))
  IN  IF command = << "e", "c", "h", "o" >>
      THEN PrintStr(IF sp # 0 THEN PrintStr(st, first_arg) ELSE st,
                    << "\n" >>)
      ELSE IF command = << "c", "l", "e", "a", "r" >>
      THEN [(IF st.show THEN Touch(st, {351}) ELSE st) EXCEPT !.y = 0]
      ELSE IF command = << "n", "o", "t", "e", "r", "m" >>
      THEN st
      ELSE IF command # << >>
      THEN PrintStr(PrintStr(PrintStr(st, NoSuchCommand), command),
                    << "\n" >>)
      ELSE st

\* Terminal::InputKey(0, 0, ascii) (265-313)
InputKey(st, ascii) ==
  LET s0 == DrawCursor(st)
      s1 == IF ascii = "\n"
            THEN [Touch(PrintStr(ExecuteLine(NewLine(s0)), << ">" >>), {282})
                    EXCEPT !.linebuf = << >>]
            ELSE IF ascii = Backspace
            THEN IF s0.x > 0
                 THEN [(IF s0.show THEN Touch(s0, {287}) ELSE s0)
                         EXCEPT !.x = @ - 1,
                                !.linebuf = IF @ # << >>
                                            THEN SubSeq(@, 1, Len(@) - 1)
                                            ELSE @]
                 ELSE s0
            ELSE [(IF s0.show THEN Touch(s0, {300}) ELSE s0)
                    EXCEPT !.x = @ + 1, !.linebuf = Append(@, ascii)]
  IN  DrawCursor(s1)

\* the command lines given, each ended by the newline of line 627
KeyLines ==
  {<< "e", "c", "h", "o" >>, << "e", "c", "h", "o", " ", "a" >>,
   << "c", "l", "e", "a", "r" >>, << "n", "o", "t", "e", "r", "m" >>,
   << "x" >>}
    \cup Strings({"a", " ", Backspace}, MaxLineChars)

KeyInit ==
  /\ ProgInit /\ AlignRest /\ ArgRest /\ TermRest /\ BlinkRest
  /\ ik_show \in BOOLEAN
  /\ ik_rest \in {Append(l, "\n") : l \in KeyLines}
  /\ ik_linebuf = << >>
  /\ ik_x = NewTerminal(ik_show).x
  /\ ik_y = NewTerminal(ik_show).y
  /\ ik_touched = NewTerminal(ik_show).touched
  /\ ik_state = "run"

\* terminal->InputKey(0, 0, c) on the next key.  Without a window a
\* dereference of window_ goes through a null pointer: the access traps
\* and the call ends there, or it does not and the call goes on.
InputKey_Step ==
  /\ ik_state = "run"
  /\ ik_rest # << >>
  /\ LET st == [show |-> ik_show, linebuf |-> ik_linebuf, x |-> ik_x,
                y |-> ik_y, touched |-> {}]
         r == InputKey(st, Head(ik_rest))
     IN  /\ ik_touched' = ik_touched \cup r.touched
         /\ \/ /\ ik_state' = "run"
               /\ ik_linebuf' = r.linebuf
               /\ ik_x' = r.x
               /\ ik_y' = r.y
               /\ ik_rest' = Tail(ik_rest)
            \/ /\ ~ik_show
               /\ r.touched # {}
               /\ ik_state' = "fault"
               /\ UNCHANGED << ik_linebuf, ik_x, ik_y, ik_rest >>
  /\ UNCHANGED ik_show
  /\ inkey_unchanged

KeyNext == InputKey_Step

KeySpec == KeyInit /\ [][KeyNext]_vars

(* -------------------- properties of the terminal loops ----------------- *)
\* the lines of terminal.cpp that read or change the run queue or a mailbox
QueueOpLines == {"612", "460", "640", "694", "642", "696", "657", "670",
                 "509:577", "715:577", "422", "424"}

\* C16: a terminal task that is to execute a line of terminal.cpp that
\* reads or changes the run queue or a mailbox (CurrentTask, NewTask,
\* Wakeup, Sleep, SendMessage, ReceiveMessage) has its interrupt flag
\* cleared, the NewTask and Wakeup of "noterm" included.
C16_QueueOpsInterruptsOff ==
  \A t \in TermTasks : tpc[t] \in QueueOpLines => ~intr[t]

\* t has called Sleep in the loop of TaskTerminal or of Read and has not
\* been woken
AsleepInLoop(t) == tpc[t] \in {"643", "693"} /\ t \notin Range(running)

\* C11: for every task, the messages its ReceiveMessage calls have
\* returned, followed by those waiting in its mailbox, are the messages
\* SendMessage delivered to it, in the order of delivery; a ReceiveMessage
\* on an empty mailbox returns the absent value and changes neither the
\* mailboxes nor the run queue.
C11_ReceiveInSendOrder ==
  /\ [](\A id \in 1 .. MaxTasks : rcvd[id] \o msgs[id] = sent[id])
  /\ [][\A t \in TermTasks :
          (Term_Receive(t) /\ msgs[t] = << >>)
          => /\ tmsg'[t] = NoMsg
             /\ UNCHANGED << msgs, running, latest_id, sent, rcvd >>]_vars
\* a terminal task has received a key and a timer message in the order
\* they were sent and has then found its mailbox empty, while the main
\* task has received a message of its own
C11_Witness ==
  \E t \in TermTasks :
    /\ sent[t] = << "kKeyPush", "kTimerTimeout" >>
    /\ rcvd[t] = sent[t]
    /\ tpc[t] \in {"642", "696"}
    /\ tmsg[t] = NoMsg
    /\ Len(rcvd[MainTask]) >= 1

\* C12: a Sleep of the executing task, the front of the run queue, takes
\* it out of the queue and dispatches the task behind it, so the executing
\* task after the step is the new front and is another task; a task asleep
\* in its loop executes nothing, and it is back in the queue only by a step
\* that delivers a message to it or wakes it.
C12_SleepDispatchesAnother ==
  [][/\ \A t \in TermTasks :
          /\ Term_Sleep(t)
             => /\ running' = Tail(running)
                /\ running' # << >>
                /\ CurrentTask' # t
                /\ t \notin Range(running')
          /\ AsleepInLoop(t)
             => /\ tpc'[t] = tpc[t] /\ intr'[t] = intr[t]
                /\ tmsg'[t] = tmsg[t] /\ rcvd'[t] = rcvd[t]
                /\ t \in Range(running')
                   => \/ sent'[t] # sent[t]
                      \/ \E u \in TermTasks : Term_Wakeup(u) /\ tmsg[u] = t
     /\ (Main_Receive /\ msgs[MainTask] = << >>)
        => /\ running' = Tail(running)
           /\ running' # << >>
           /\ CurrentTask' # MainTask]_vars
\* a terminal task has gone to sleep in the loop of TaskTerminal, the
\* other terminal task executes, and the slept one has been re-enqueued by
\* a message and waits behind it at the line after its Sleep
C12_Witness ==
  \E t, u \in TermTasks :
    /\ t # u
    /\ tpc[t] = "643" /\ ~intr[t]
    /\ msgs[t] # << >>
    /\ t \in Range(running)
    /\ CurrentTask = u

\* C17: a terminal task asleep in the receive-or-sleep loop of TaskTerminal
\* or of TerminalFileDescriptor::Read has an empty mailbox, and when the
\* scheduler dispatches every runnable task, the n-th message delivered to
\* a terminal task is eventually returned by its ReceiveMessage.
C17_NoLostWakeup ==
  /\ [](\A t \in TermTasks : AsleepInLoop(t) => msgs[t] = << >>)
  /\ \A t \in TermTasks, n \in 1 .. MaxSends :
       (Len(sent[t]) >= n) ~> (Len(rcvd[t]) >= n)
\* one terminal sleeps in Read with interrupts off after it received a
\* message, the other sleeps in the loop of TaskTerminal
C17_Witness ==
  \E t, u \in TermTasks :
    /\ tpc[t] = "693" /\ AsleepInLoop(t) /\ ~intr[t]
    /\ Len(rcvd[t]) >= 1 /\ sent[t] = rcvd[t]
    /\ tpc[u] = "643" /\ AsleepInLoop(u) /\ ~intr[u]

(* ---------------------- properties of the blink timer ------------------ *)
\* the blink timers of t, the timeout messages waiting in its mailbox, and
\* the timeout message it has received and not yet answered with a timer
BlinkChain(t) ==
  bl_timers[t] + Timeouts(bl_box[t])
    + (IF bl_msg[t] = "kTimerTimeout" THEN 1 ELSE 0)

\* C21: once a terminal task has armed its blink timer, there is exactly
\* one blink timer, undelivered timeout message or timeout message under
\* way for it, also while an application it started reads its standard
\* input through TerminalFileDescriptor::Read.
C21_BlinkChainUnbroken ==
  \A t \in Terminals : bl_pc[t] # "634" => BlinkChain(t) = 1

(* ------------------------- properties of InputKey ---------------------- *)
\* C22: a terminal made without a window never dereferences window_: for
\* every command line given to InputKey, its final newline and the output
\* of the command included, no line that reads or writes through window_
\* is executed.
C22_NoWindowAccess == ~ik_show => ik_touched = {}

(* ----------------------- properties of the scheduler ------------------- *)
\* C9: whatever NewTask, Sleep, Wakeup, SendMessage and SwitchTask calls
\* have been made, no task is twice in the run queue, the queue is not
\* empty, and every id in it is the id of a task.
C9_RunQueueSound ==
  /\ \A i, j \in 1 .. Len(running) : running[i] = running[j] => i = j
  /\ running # << >>
  /\ \A i \in 1 .. Len(running) : Live(running[i])
\* every task has been created, all have been runnable, and all but the
\* idle task have been put to sleep, the last of them from the front
C9_Witness ==
  /\ latest_id = MaxTasks
  /\ running = << IdleTask >>
  /\ InFlight > 0

\* C10: a SendMessage(id, msg) to a task that exists and is not in the run
\* queue puts the task into the queue and leaves its mailbox the mailbox
\* before with msg appended; no other mailbox changes, and no other task
\* enters or leaves the queue.  This holds of the send at the end of
\* Terminal::Print too.
C10_Delivered(id, msg) ==
  /\ id \in Range(running')
  /\ msgs'[id] = Append(msgs[id], msg)
  /\ \A o \in TaskIds \ {id} :
       /\ msgs'[o] = msgs[o]
       /\ (o \in Range(running')) = (o \in Range(running))
  /\ running' = Append(running, id)
C10_SendWakesSleeper ==
  [][/\ \A id \in TaskIds, msg \in InterruptMsgs :
          (SendMessage(id, msg) /\ Live(id) /\ id \notin Range(running))
          => C10_Delivered(id, msg)
     /\ \A t \in Terminals :
          (Terminal_Redraw(t) /\ MainTask \notin Range(running))
          => C10_Delivered(MainTask, LayerMsg)]_vars
\* a terminal's draw-area message has just taken the sleeping main task back
\* into the queue behind a message it had not received yet
C10_Witness ==
  /\ send_woke = MainTask
  /\ MainTask \in Range(running)
  /\ Len(msgs[MainTask]) = 2
  /\ msgs[MainTask][2] = LayerMsg

====
